---- MODULE Spec2Model ----
(***************************************************************************)
(* Model of the dotfile browser in src/main.rs: the locator                *)
(* (find_dotfiles), the session (App) and the event loop (run) between     *)
(* init_terminal and restore_terminal.                                     *)
(*                                                                         *)
(* Paths are written relative to $HOME as sequences of file names:         *)
(* <<".config", "app">> stands for $HOME/.config/app.                      *)
(* Option<usize> is a sequence: None is <<>>, Some(i) is <<i>>.            *)
(***************************************************************************)
EXTENDS Integers, Sequences, FiniteSets

(* Cap of the selection index in the one case where the code lets it grow  *)
(* up to usize::MAX (empty list, wrapping len() - 1).                      *)
MaxSelected == 3

None == <<>>
Some(i) == <<i>>

VARIABLES
    HOME,             \* std::env::var("HOME"): "set", "NotPresent", "NotUnicode"
    fs,               \* the file system below $HOME at the time of the scan
    overflowChecks,   \* build profile: TRUE = usize overflow panics (debug)
    listClamps,       \* ratatui build: TRUE = List::render normalises the selection
    pc,               \* position in main: "init", "app_new", "draw", "poll", "restore", "done"
    rawMode,          \* terminal is in raw mode
    altScreen,        \* terminal shows the alternate screen
    restoreCalls,     \* number of calls of restore_terminal
    result,           \* the value of run: "none", "Ok", "ErrDraw", "ErrPoll", "ErrRead"
    exit,             \* how main ended: "none", "Ok", "Err", "panic"
    err_kind,         \* ErrorKind of the io::Error main returned: "none", "NotFound", "Other"
    dotfiles,         \* App.dotfiles
    list_state,       \* App.list_state.selected()
    highlighted,      \* the row the last draw highlighted in the list pane
    preview_content,  \* what the last draw put in the preview pane
    fileObs,          \* what the file system answered for the selected path in the last draw
    lastEvent         \* the event taken by the last poll/read

vars == <<HOME, fs, overflowChecks, listClamps, pc, rawMode, altScreen, restoreCalls,
          result, exit, err_kind, dotfiles, list_state, highlighted, preview_content,
          fileObs, lastEvent>>

env == <<HOME, fs, overflowChecks, listClamps>>

----------------------------------------------------------------------------
(* The file system given to the scan.                                       *)
(* A directory entry: err = "none" (readable), "entry" (read_dir yields an  *)
(* error in its place), "open" (a directory that is listed but cannot be    *)
(* opened).                                                                 *)

File(n, e) == [name |-> n, kind |-> "file", err |-> e, children |-> <<>>]
Dir(n, e, ch) == [name |-> n, kind |-> "dir", err |-> e, children |-> ch]

BashrcV == {File(".bashrc", "none"), File(".bashrc", "entry")}
NotesV == {File("notes.txt", "none")}
TomlV == {File("config.toml", "none"), File("config.toml", "entry")}
AppV == {Dir("app", "entry", <<>>), Dir("app", "open", <<>>)}
        \cup {Dir("app", "none", ch) : ch \in {<<>>} \cup {<<t>> : t \in TomlV}}
ConfigV == {Dir(".config", "entry", <<>>), Dir(".config", "open", <<>>), File(".config", "none")}
           \cup {Dir(".config", "none", ch) : ch \in {<<>>} \cup {<<a>> : a \in AppV}}

Candidates == BashrcV \cup NotesV \cup ConfigV

DistinctNames(s) == \A i, j \in DOMAIN s : i # j => s[i].name # s[j].name

(* read_dir order is whatever the file system gives: every order of the     *)
(* entries present.                                                         *)
HomeListings ==
    {s \in UNION {[1..n -> Candidates] : n \in 0..3} : DistinctNames(s)}

FileSystems ==
    {[home_err |-> "missing", entries |-> <<>>]}
    \cup {[home_err |-> "none", entries |-> s] : s \in HomeListings}
    \cup {[home_err |-> "open", entries |-> s] :
            s \in {t \in HomeListings : Len(t) <= 1}}

(* The scenario of the specification's section 8.                           *)
ScenarioTree ==
    {File(".bashrc", "none"), File("notes.txt", "none"),
     Dir(".config", "none", <<Dir("app", "none", <<File("config.toml", "none")>>)>>)}

IsScenario(f) ==
    /\ f.home_err = "none"
    /\ Len(f.entries) = 3
    /\ {f.entries[i] : i \in 1..3} = ScenarioTree

----------------------------------------------------------------------------
(* WalkDir: the items of a pre-order walk, each an Ok(entry) or an Err.     *)

OkItem(p, n) == [ok |-> TRUE, path |-> p, name |-> n]
ErrItem == [ok |-> FALSE, path |-> <<>>, name |-> ""]

RECURSIVE WalkList(_, _, _)
(* The items for the entries `listing` of the directory `prefix`.           *)
(* descend = FALSE is max_depth(1): the entries are yielded, the            *)
(* directories among them are not opened. descend = TRUE is the default,    *)
(* no depth limit.                                                          *)
WalkList(listing, prefix, descend) ==
    IF listing = <<>> THEN <<>>
    ELSE LET d == Head(listing)
             p == Append(prefix, d.name)
             here == IF d.err = "entry" THEN <<ErrItem>> ELSE <<OkItem(p, d.name)>>
             below == IF d.err = "entry" \/ d.kind # "dir" \/ ~descend THEN <<>>
                      ELSE IF d.err = "open" THEN <<ErrItem>>
                      ELSE WalkList(d.children, p, descend)
         IN here \o below \o WalkList(Tail(listing), prefix, descend)

(* WalkDir::new($HOME).max_depth(1).min_depth(1)                            *)
WalkHome(f) ==
    IF f.home_err # "none" THEN <<ErrItem>>
    ELSE WalkList(f.entries, <<>>, FALSE)

(* WalkDir::new($HOME/.config).min_depth(1): the root itself is left out.   *)
WalkConfig(f) ==
    LET at == {i \in DOMAIN f.entries : f.entries[i].name = ".config"}
    IN IF f.home_err = "missing" \/ at = {} THEN <<ErrItem>>
       ELSE LET c == f.entries[CHOOSE i \in at : TRUE]
            IN IF c.err # "none" THEN <<ErrItem>>
               ELSE IF c.kind # "dir" THEN <<>>
               ELSE WalkList(c.children, <<".config">>, TRUE)

(* starts_with_dot with the test lost: every name passes the filter *)
starts_with_dotAny(n) == TRUE

(* s.starts_with('.') for the names of the model *)
starts_with_dot(n) == n \in {".bashrc", ".config"}

IsOk(item) == item.ok
DotNamed(item) == starts_with_dot(item.name)

RECURSIVE PathsOf(_)
PathsOf(items) ==
    IF items = <<>> THEN <<>> ELSE <<Head(items).path>> \o PathsOf(Tail(items))

(* std::env::var("HOME").map_err(|e| Error::new(ErrorKind::NotFound, e)) *)
EnvVarError(home) == [ok |-> FALSE, kind |-> "NotFound", val |-> <<>>]

(* The first Err of a walk, if any: what collecting into a Result would return. *)
HasErr(items) == \E i \in DOMAIN items : ~items[i].ok

(* find_dotfiles with the walk errors propagated instead of filtered out *)
find_dotfilesPropagating(home, f) ==
    IF home # "set" THEN EnvVarError(home)
    ELSE IF HasErr(WalkHome(f)) \/ HasErr(WalkConfig(f))
         THEN [ok |-> FALSE, kind |-> "Other", val |-> <<>>]
    ELSE [ok |-> TRUE, kind |-> "",
          val |-> PathsOf(SelectSeq(WalkHome(f), DotNamed)) \o PathsOf(WalkConfig(f))]

find_dotfiles(home, f) ==
    IF home # "set" THEN EnvVarError(home)
    ELSE LET home_dotfiles == PathsOf(SelectSeq(SelectSeq(WalkHome(f), IsOk), DotNamed))
             config_files == PathsOf(SelectSeq(WalkConfig(f), IsOk))
         IN [ok |-> TRUE, kind |-> "", val |-> home_dotfiles \o config_files]

----------------------------------------------------------------------------
Init ==
    /\ HOME \in {"set", "NotPresent", "NotUnicode"}
    /\ fs \in FileSystems
    /\ HOME # "set" => fs.home_err = "missing"
    /\ overflowChecks \in BOOLEAN
    /\ listClamps \in BOOLEAN
    /\ pc = "init"
    /\ rawMode = FALSE
    /\ altScreen = FALSE
    /\ restoreCalls = 0
    /\ result = "none"
    /\ exit = "none"
    /\ err_kind = "none"
    /\ dotfiles = <<>>
    /\ list_state = None
    /\ highlighted = None
    /\ preview_content = [text |-> "", src |-> <<>>]
    /\ fileObs = "none"
    /\ lastEvent = "none"

(* init_terminal, called by main with `?`: each of its three calls may      *)
(* fail, and a failure returns from main at once.                           *)
InitOutcomes == {"raw_fail", "alt_fail", "new_fail", "ok"}

InitTerminal ==
    /\ pc = "init"
    /\ \E o \in InitOutcomes :
        /\ rawMode' = (o # "raw_fail")
        /\ altScreen' = (o \in {"new_fail", "ok"})
        /\ pc' = IF o = "ok" THEN "app_new" ELSE "done"
        /\ exit' = IF o = "ok" THEN exit ELSE "Err"
        /\ err_kind' = IF o = "ok" THEN err_kind ELSE "Other"
    /\ UNCHANGED <<env, restoreCalls, result, dotfiles, list_state, highlighted,
                   preview_content, fileObs, lastEvent>>

(* App::new, called by main with `?`.                                       *)
NewSelection(files) == Some(0)

AppNew ==
    /\ pc = "app_new"
    /\ LET r == find_dotfiles(HOME, fs)
       IN IF r.ok
          THEN /\ dotfiles' = r.val
               /\ list_state' = NewSelection(r.val)
               /\ pc' = "draw"
               /\ UNCHANGED <<exit, err_kind>>
          ELSE /\ pc' = "done"
               /\ exit' = "Err"
               /\ err_kind' = r.kind
               /\ UNCHANGED <<dotfiles, list_state>>
    /\ UNCHANGED <<env, rawMode, altScreen, restoreCalls, result, highlighted,
                   preview_content, fileObs, lastEvent>>

----------------------------------------------------------------------------
(* The render step: the closure given to terminal.draw.                     *)

(* RenderList moving the selection down by one row at every frame *)
RenderListAdvancing(selected, len, clamps) ==
    IF selected = None THEN selected
    ELSE IF selected[1] < len - 1 THEN Some(selected[1] + 1)
    ELSE selected

(* frame.render_stateful_widget(list, .., &mut app.list_state): the widget  *)
(* gets the list state mutably. A ratatui whose List::render normalises the *)
(* state selects nothing for an empty list and the last item for an index   *)
(* past the end; an older one leaves the selection as it is.                *)
RenderList(selected, len, clamps) ==
    IF ~clamps \/ selected = None THEN selected
    ELSE IF len = 0 THEN None
    ELSE IF selected[1] >= len THEN Some(len - 1)
    ELSE selected

(* list_labels taking the paths out of the vector (drain) instead of borrowing them *)
list_labelsDraining(files) == [labels |-> files, left |-> <<>>]

(* app.dotfiles.iter().map(..).collect(): the labels of the list, one per   *)
(* path, and the vector as the borrow leaves it.                            *)
list_labels(files) == [labels |-> files, left |-> files]

(* The row List::render draws with highlight_style and ">> ": the selected  *)
(* one, if the list has such a row.                                         *)
Highlight(selected, len) ==
    IF selected # None /\ selected[1] < len THEN selected ELSE None

(* selected_path always taking the first entry *)
selected_pathFirst(files, selected) ==
    IF selected # None /\ selected[1] < Len(files)
    THEN Some(files[1])
    ELSE None

(* app.dotfiles.get(selected), indices from 0 *)
selected_path(files, selected) ==
    IF selected # None /\ selected[1] < Len(files)
    THEN Some(files[selected[1] + 1])
    ELSE None

(* What the file system answers about a path at the time of a draw: it is   *)
(* a directory, a file that read_to_string reads, or a path whose read      *)
(* fails (deleted since the scan, unreadable, not UTF-8).                   *)
FileAnswers == {"dir", "file", "read_err"}

(* PreviewOf with the read error shown as an empty file instead of the placeholder *)
PreviewOfNoPlaceholder(path, answer) ==
    IF path = None THEN [text |-> "No file selected.", src |-> <<>>]
    ELSE IF answer = "dir" THEN [text |-> "This is a directory.", src |-> <<>>]
    ELSE [text |-> "<contents>", src |-> path[1]]

PreviewOf(path, answer) ==
    IF path = None THEN [text |-> "No file selected.", src |-> <<>>]
    ELSE IF answer = "dir" THEN [text |-> "This is a directory.", src |-> <<>>]
    ELSE IF answer = "file" THEN [text |-> "<contents>", src |-> path[1]]
    ELSE [text |-> "Error reading file.", src |-> <<>>]

(* terminal.draw(..)? : an I/O error of the terminal, before the closure    *)
(* runs (resize) or after it (flush), leaves the loop and run.              *)
DrawOutcomes == {"fail_resize", "fail_flush", "ok"}

(* AfterDraw with the error of terminal.draw dropped and the loop going on *)
AfterDrawRetry(o) ==
    IF o = "ok" THEN [pc |-> "poll", result |-> "none"]
    ELSE [pc |-> "draw", result |-> "ErrDraw"]

AfterDraw(o) ==
    IF o = "ok" THEN [pc |-> "poll", result |-> "none"]
    ELSE [pc |-> "restore", result |-> "ErrDraw"]

Draw ==
    /\ pc = "draw"
    /\ \E o \in DrawOutcomes :
        /\ pc' = AfterDraw(o).pc
        /\ result' = AfterDraw(o).result
        /\ IF o = "fail_resize"
           THEN UNCHANGED <<dotfiles, list_state, highlighted, preview_content, fileObs>>
           ELSE LET items == list_labels(dotfiles)
                    sel == RenderList(list_state, Len(items.labels), listClamps)
                    path == selected_path(items.left, sel)
                IN /\ dotfiles' = items.left
                   /\ list_state' = sel
                   /\ highlighted' = Highlight(sel, Len(items.labels))
                   /\ \E a \in (IF path = None THEN {"none"} ELSE FileAnswers) :
                        /\ fileObs' = a
                        /\ preview_content' = PreviewOf(path, a)
    /\ UNCHANGED <<env, rawMode, altScreen, restoreCalls, exit, err_kind, lastEvent>>

----------------------------------------------------------------------------
(* The input step: event::poll(250ms)?, event::read()?, match key.code.     *)

Events == {"timeout", "poll_err", "read_err", "resize", "q", "Down", "Up", "x"}

(* KeyAction with the catch-all arm acting as the Down arm *)
KeyActionOtherIsDown(e) ==
    IF e = "q" THEN "break"
    ELSE IF e = "Up" THEN "up"
    ELSE "down"

(* KeyAction with the 'q' arm lost in the catch-all arm *)
KeyActionNoQuit(e) ==
    IF e = "Down" THEN "down"
    ELSE IF e = "Up" THEN "up"
    ELSE "ignore"

(* match key.code *)
KeyAction(e) ==
    IF e = "q" THEN "break"
    ELSE IF e = "Down" THEN "down"
    ELSE IF e = "Up" THEN "up"
    ELSE "ignore"

(* DownStep taking two rows at a time *)
DownStepTwo(selected, len, checks) ==
    IF selected = None THEN [panic |-> FALSE, sel |-> selected]
    ELSE IF len = 0
         THEN IF checks THEN [panic |-> TRUE, sel |-> selected]
              ELSE [panic |-> FALSE, sel |-> Some(selected[1] + 1)]
    ELSE IF selected[1] < len - 2 THEN [panic |-> FALSE, sel |-> Some(selected[1] + 2)]
    ELSE [panic |-> FALSE, sel |-> Some(len - 1)]

(* DownStep wrapping from the last entry to the first *)
DownStepWrap(selected, len, checks) ==
    IF selected = None THEN [panic |-> FALSE, sel |-> selected]
    ELSE IF len = 0
         THEN IF checks THEN [panic |-> TRUE, sel |-> selected]
              ELSE [panic |-> FALSE, sel |-> Some(selected[1] + 1)]
    ELSE IF selected[1] < len - 1 THEN [panic |-> FALSE, sel |-> Some(selected[1] + 1)]
    ELSE [panic |-> FALSE, sel |-> Some(0)]

(* DownStep without the test against len() - 1 *)
DownStepNoClamp(selected, len, checks) ==
    IF selected = None THEN [panic |-> FALSE, sel |-> selected]
    ELSE [panic |-> FALSE, sel |-> Some(selected[1] + 1)]

(* selected < app.dotfiles.len() - 1 on usize: with len() = 0 the           *)
(* subtraction overflows, which panics in a build with overflow checks and  *)
(* wraps to usize::MAX (above every index the model reaches) without.       *)
DownStep(selected, len, checks) ==
    IF selected = None THEN [panic |-> FALSE, sel |-> selected]
    ELSE IF len = 0
         THEN IF checks THEN [panic |-> TRUE, sel |-> selected]
              ELSE [panic |-> FALSE, sel |-> Some(selected[1] + 1)]
    ELSE IF selected[1] < len - 1 THEN [panic |-> FALSE, sel |-> Some(selected[1] + 1)]
    ELSE [panic |-> FALSE, sel |-> selected]

UpStep(selected) ==
    IF selected # None /\ selected[1] > 0 THEN Some(selected[1] - 1) ELSE selected

(* usize::MAX is out of reach: the index stops at MaxSelected. *)
WithinCap(selected) == IF selected = None THEN TRUE ELSE selected[1] <= MaxSelected

HandleInput ==
    /\ pc = "poll"
    /\ \E e \in Events :
        /\ lastEvent' = e
        /\ IF e = "poll_err" THEN
                /\ pc' = "restore" /\ result' = "ErrPoll"
                /\ UNCHANGED <<list_state, exit>>
           ELSE IF e = "read_err" THEN
                /\ pc' = "restore" /\ result' = "ErrRead"
                /\ UNCHANGED <<list_state, exit>>
           ELSE IF e \in {"timeout", "resize"} THEN
                /\ pc' = "draw"
                /\ UNCHANGED <<list_state, result, exit>>
           ELSE IF KeyAction(e) = "break" THEN
                /\ pc' = "restore" /\ result' = "Ok"
                /\ UNCHANGED <<list_state, exit>>
           ELSE IF KeyAction(e) = "down" THEN
                LET d == DownStep(list_state, Len(dotfiles), overflowChecks)
                IN IF d.panic
                   THEN /\ pc' = "done" /\ exit' = "panic"
                        /\ UNCHANGED <<list_state, result>>
                   ELSE /\ WithinCap(d.sel)
                        /\ list_state' = d.sel
                        /\ pc' = "draw"
                        /\ UNCHANGED <<result, exit>>
           ELSE IF KeyAction(e) = "up" THEN
                /\ list_state' = UpStep(list_state)
                /\ pc' = "draw"
                /\ UNCHANGED <<result, exit>>
           ELSE /\ pc' = "draw"
                /\ UNCHANGED <<list_state, result, exit>>
    /\ UNCHANGED <<env, rawMode, altScreen, restoreCalls, err_kind, dotfiles,
                   highlighted, preview_content, fileObs>>

----------------------------------------------------------------------------
(* restore_terminal()? followed by `result`, the end of main.               *)
RestoreOutcomes == {"raw_fail", "alt_fail", "ok"}

MainExit(o, res) ==
    IF o # "ok" THEN "Err"
    ELSE IF res = "Ok" THEN "Ok"
    ELSE "Err"

RestoreTerminal ==
    /\ pc = "restore"
    /\ restoreCalls' = restoreCalls + 1
    /\ \E o \in RestoreOutcomes :
        /\ rawMode' = IF o = "raw_fail" THEN rawMode ELSE FALSE
        /\ altScreen' = IF o = "ok" THEN FALSE ELSE altScreen
        /\ exit' = MainExit(o, result)
        /\ err_kind' = IF MainExit(o, result) = "Err" THEN "Other" ELSE err_kind
    /\ pc' = "done"
    /\ UNCHANGED <<env, result, dotfiles, list_state, highlighted, preview_content,
                   fileObs, lastEvent>>

Next == InitTerminal \/ AppNew \/ Draw \/ HandleInput \/ RestoreTerminal

Spec == Init /\ [][Next]_vars

----------------------------------------------------------------------------
(* Properties                                                               *)

(* The App exists: App::new has returned Ok. *)
AppBuilt == pc \in {"draw", "poll", "restore"} \/ result # "none" \/ exit = "panic"

(* C1: with a non-empty entry sequence the selection is present and its     *)
(* index is within 0 .. len(entries)-1 in every reachable state, whatever   *)
(* Up/Down keys, timeouts and other keys were handled.                      *)
C1_SelectionInRange ==
    Len(dotfiles) > 0 =>
        /\ list_state # None
        /\ 0 <= list_state[1]
        /\ list_state[1] <= Len(dotfiles) - 1

(* A Down key was handled on the last of several entries and was clamped. *)
C1_Witness ==
    /\ Len(dotfiles) >= 3
    /\ pc = "draw"
    /\ lastEvent = "Down"
    /\ list_state = Some(Len(dotfiles) - 1)
    /\ fileObs = "file"
    /\ preview_content.src = dotfiles[Len(dotfiles)]

(* C2: on every exit path of main taken after the terminal was put into raw *)
(* mode or the alternate screen, restore_terminal has been called before    *)
(* main returns: main never ends with the terminal still in raw mode or on  *)
(* the alternate screen and no restoration attempted.                       *)
C2_RestoreOnEveryExit ==
    (pc = "done" /\ (rawMode \/ altScreen)) => restoreCalls >= 1

(* C3: with an empty entry sequence an Up or Down key leaves the selection  *)
(* absent, and handling it neither faults nor ends the session.             *)
C3_EmptyNavigation ==
    [][(pc = "poll" /\ dotfiles = <<>> /\ lastEvent' \in {"Up", "Down"})
        => (list_state = None /\ list_state' = None /\ pc' = "draw" /\ exit' = "none")]_vars

(* C4: when 'q' is the event of an iteration the loop is left in that       *)
(* iteration with run returning Ok; nothing is rendered and no input is     *)
(* handled afterwards, and restore_terminal is called exactly once, as the  *)
(* next step.                                                               *)
C4_QuitExits ==
    [][(lastEvent' = "q") =>
        /\ result' = "Ok"
        /\ lastEvent # "q" => (pc = "poll" /\ pc' = "restore" /\ restoreCalls' = 0)
        /\ lastEvent = "q" =>
              /\ pc = "restore" /\ pc' = "done"
              /\ restoreCalls' = 1
              /\ preview_content' = preview_content
              /\ list_state' = list_state
              /\ fileObs' = fileObs]_vars

(* 'q' was read after some navigation, and main has returned Ok after one restoration. *)
C4_Witness ==
    /\ lastEvent = "q"
    /\ pc = "done"
    /\ exit = "Ok"
    /\ restoreCalls = 1
    /\ ~rawMode /\ ~altScreen
    /\ list_state = Some(1)

(* C5: for a home directory holding .bashrc, notes.txt and .config with     *)
(* app/config.toml, find_dotfiles returns exactly .bashrc, app and          *)
(* app/config.toml (the last two below .config), in this order, and no      *)
(* other entry.                                                             *)
C5_ScenarioResult ==
    (HOME = "set" /\ IsScenario(fs) /\ AppBuilt) =>
        dotfiles = << <<".bashrc">>, <<".config", "app">>,
                      <<".config", "app", "config.toml">> >>

(* C5, amended: in that scenario find_dotfiles returns the dot-entries of   *)
(* the home directory, .bashrc and .config itself, in the order read_dir    *)
(* gives them, then app and app/config.toml below .config; notes.txt is     *)
(* excluded and no other entry is present.                                  *)
C5_ScenarioResultAmended ==
    (HOME = "set" /\ IsScenario(fs) /\ AppBuilt) =>
        \/ dotfiles = << <<".bashrc">>, <<".config">>, <<".config", "app">>,
                         <<".config", "app", "config.toml">> >>
        \/ dotfiles = << <<".config">>, <<".bashrc">>, <<".config", "app">>,
                         <<".config", "app", "config.toml">> >>

(* The scan of the scenario has returned, with notes.txt listed between the two dot-entries. *)
C5_Witness ==
    /\ HOME = "set"
    /\ IsScenario(fs)
    /\ fs.entries[2].name = "notes.txt"
    /\ pc = "draw"
    /\ lastEvent = "none"
    /\ Len(dotfiles) = 4

(* C6: right after App::new the selection is index 0 for a non-empty entry  *)
(* sequence and absent for an empty one.                                    *)
C6_InitialSelection ==
    (pc = "draw" /\ lastEvent = "none") =>
        list_state = IF dotfiles # <<>> THEN Some(0) ELSE None

(* C7: a failing terminal.draw ends the loop at once (no further draw or    *)
(* poll), restore_terminal is called next, and main returns an error only   *)
(* after that call.                                                         *)
C7_DrawFailure ==
    result = "ErrDraw" =>
        /\ pc \in {"restore", "done"}
        /\ pc = "restore" => (restoreCalls = 0 /\ exit = "none")
        /\ pc = "done" => (restoreCalls = 1 /\ exit = "Err")

(* A draw failed after some input had been handled; main has returned Err after the restoration. *)
C7_Witness ==
    /\ result = "ErrDraw"
    /\ pc = "done"
    /\ exit = "Err"
    /\ restoreCalls = 1
    /\ ~rawMode /\ ~altScreen
    /\ lastEvent = "Up"

(* C8: when the read of the selected file fails during a render, the pane   *)
(* shows "Error reading file.", entries and selection stay as they were,    *)
(* and the loop goes on to the input step; the session ends in that         *)
(* iteration only if the write to the terminal itself fails.                *)
C8_ReadFailureIsLocal ==
    [][(pc = "draw" /\ fileObs' = "read_err") =>
        /\ preview_content' = [text |-> "Error reading file.", src |-> <<>>]
        /\ dotfiles' = dotfiles
        /\ list_state' = list_state
        /\ exit' = "none"
        /\ result' \in {"none", "ErrDraw"}
        /\ result' = "none" => pc' = "poll"]_vars

(* A key was handled after a render whose read failed; the session is still running. *)
C8_Witness ==
    /\ pc = "draw"
    /\ fileObs = "read_err"
    /\ preview_content.text = "Error reading file."
    /\ lastEvent = "Down"
    /\ list_state = Some(1)
    /\ Len(dotfiles) >= 3
    /\ result = "none"

(* C9: the loop is left only by the key 'q': a poll timeout, an Up or Down  *)
(* key, another key or a non-key event is always followed by the next       *)
(* render.                                                                  *)
C9_OnlyQuitExits ==
    [][(pc = "poll" /\ lastEvent' \in {"timeout", "resize", "Up", "Down", "x"})
        => (pc' = "draw" /\ result' = "none" /\ exit' = "none")]_vars

(* What the scan is to return: the dot-named entries of the home directory  *)
(* that read_dir gave without error, then every entry below .config that    *)
(* could be listed, parents before their contents.                          *)
RECURSIVE Listed(_, _)
Listed(listing, prefix) ==
    IF listing = <<>> THEN <<>>
    ELSE LET d == Head(listing)
         IN (IF d.err = "entry" THEN <<>>
             ELSE <<Append(prefix, d.name)>>
                  \o (IF d.kind = "dir" /\ d.err = "none"
                      THEN Listed(d.children, Append(prefix, d.name)) ELSE <<>>))
            \o Listed(Tail(listing), prefix)

DotEntry(d) == d.err # "entry" /\ d.name \in {".bashrc", ".config"}

RECURSIVE NamesToPaths(_)
NamesToPaths(listing) ==
    IF listing = <<>> THEN <<>>
    ELSE << <<Head(listing).name>> >> \o NamesToPaths(Tail(listing))

ExpectedEntries(f) ==
    LET home == IF f.home_err = "none" THEN NamesToPaths(SelectSeq(f.entries, DotEntry))
                ELSE <<>>
        conf == {i \in DOMAIN f.entries :
                    /\ f.entries[i].name = ".config"
                    /\ f.entries[i].kind = "dir"
                    /\ f.entries[i].err = "none"}
    IN IF f.home_err = "missing" \/ conf = {} THEN home
       ELSE home \o Listed(f.entries[CHOOSE i \in conf : TRUE].children, <<".config">>)

(* Some entry of the file system cannot be read or opened. *)
RECURSIVE HasUnreadable(_)
HasUnreadable(listing) ==
    \E i \in DOMAIN listing :
        listing[i].err # "none" \/ HasUnreadable(listing[i].children)

(* C10: find_dotfiles fails exactly when HOME cannot be resolved, and then  *)
(* with kind NotFound; otherwise it returns Ok with every entry that could  *)
(* be read, in order, whatever entries or directories could not.            *)
C10_OnlyHomeIsFatal ==
    [][pc = "app_new" =>
        /\ HOME # "set" => (pc' = "done" /\ exit' = "Err" /\ err_kind' = "NotFound")
        /\ HOME = "set" => (pc' = "draw" /\ exit' = "none" /\ err_kind' = "none"
                            /\ dotfiles' = ExpectedEntries(fs))]_vars

(* The scan met an entry in error and a directory it could not open, and returned the rest. *)
C10_Witness ==
    /\ pc = "draw"
    /\ lastEvent = "none"
    /\ HOME = "set"
    /\ fs.home_err = "none"
    /\ \E i \in DOMAIN fs.entries : fs.entries[i].err = "entry"
    /\ \E i \in DOMAIN fs.entries :
            /\ fs.entries[i].err = "none"
            /\ HasUnreadable(fs.entries[i].children)
    /\ Len(dotfiles) >= 2

(* C11: a render that follows a render with only a poll timeout between,    *)
(* and gets the same answer from the file system, shows what the first      *)
(* showed (same labels, same highlighted row, same preview) and leaves the  *)
(* session as the first left it.                                            *)
C11_RenderIdempotent ==
    [][(pc = "draw" /\ lastEvent = "timeout" /\ pc' = "poll" /\ fileObs' = fileObs) =>
        /\ dotfiles' = dotfiles
        /\ highlighted' = highlighted
        /\ preview_content' = preview_content
        /\ list_state' = list_state]_vars

(* A second render has completed after a timeout, showing the contents of the third entry. *)
C11_Witness ==
    /\ pc = "poll"
    /\ lastEvent = "timeout"
    /\ highlighted = Some(2)
    /\ list_state = Some(2)
    /\ fileObs = "file"
    /\ preview_content = [text |-> "<contents>", src |-> dotfiles[3]]

(* C12: navigation is the clamped step: Down below the last index adds one, *)
(* Down on the last index changes nothing, Up above 0 subtracts one, Up on  *)
(* 0 changes nothing; the index never jumps between the two ends.           *)
C12_ClampedStep ==
    [][(pc = "poll" /\ list_state # None /\ lastEvent' \in {"Up", "Down"}) =>
        LET index == list_state[1]
            len == Len(dotfiles)
        IN /\ (lastEvent' = "Down" /\ index < len - 1) => list_state' = Some(index + 1)
           /\ (lastEvent' = "Down" /\ index = len - 1) => list_state' = Some(index)
           /\ (lastEvent' = "Up" /\ index > 0) => list_state' = Some(index - 1)
           /\ (lastEvent' = "Up" /\ index = 0) => list_state' = Some(index)
           /\ list_state' # None
           /\ list_state'[1] - index \in {-1, 0, 1}]_vars

(* An Up key was handled while the first of several entries was selected and shown. *)
C12_Witness ==
    /\ pc = "draw"
    /\ lastEvent = "Up"
    /\ list_state = Some(0)
    /\ highlighted = Some(0)
    /\ Len(dotfiles) >= 3
    /\ fileObs = "file"
    /\ preview_content.src = dotfiles[1]

(* C13: a poll timeout, a non-key event and a key other than 'q', Up and    *)
(* Down change neither the entries nor the selection, and the session stays *)
(* running: the next step is the next render.                               *)
C13_IgnoredInput ==
    [][(pc = "poll" /\ lastEvent' \in {"timeout", "resize", "x"}) =>
        /\ dotfiles' = dotfiles
        /\ list_state' = list_state
        /\ pc' = "draw"
        /\ result' = "none"
        /\ exit' = "none"]_vars

(* Another key was handled with the second of several entries selected. *)
C13_Witness ==
    /\ pc = "draw"
    /\ lastEvent = "x"
    /\ list_state = Some(1)
    /\ highlighted = Some(1)
    /\ Len(dotfiles) >= 3
    /\ result = "none"

(* C14: the entries are the snapshot taken by App::new: once the App        *)
(* exists no step adds, removes or reorders an entry, and the sequence is   *)
(* the one the single find_dotfiles call returned.                          *)
C14_EntriesImmutable ==
    [][AppBuilt =>
        /\ dotfiles' = dotfiles
        /\ dotfiles = find_dotfiles(HOME, fs).val]_vars

(* The session ran through renders and navigation to its end with its four entries. *)
C14_Witness ==
    /\ pc = "done"
    /\ lastEvent = "q"
    /\ Len(dotfiles) = 4
    /\ highlighted = Some(3)
    /\ preview_content.text = "This is a directory."

(* C15: the render step never changes the selection: it is the same after   *)
(* terminal.draw as before it.                                              *)
C15_RenderKeepsSelection ==
    [][pc = "draw" => list_state' = list_state]_vars

(* C16: a completed render shows a preview of the entry at the selection    *)
(* index of that moment and of no other: the directory placeholder, the     *)
(* contents of that file, the read-error placeholder, or "No file           *)
(* selected." when there is no selection or no entry at the index.          *)
C16_PreviewOfSelection ==
    [][(pc = "draw" /\ pc' = "poll") =>
        IF list_state' = None \/ dotfiles = <<>>
        THEN /\ preview_content' = [text |-> "No file selected.", src |-> <<>>]
             /\ fileObs' = "none"
        ELSE IF list_state'[1] >= Len(dotfiles)
        THEN preview_content' = [text |-> "No file selected.", src |-> <<>>]
        ELSE /\ fileObs' = "dir" =>
                    preview_content' = [text |-> "This is a directory.", src |-> <<>>]
             /\ fileObs' = "file" =>
                    preview_content' = [text |-> "<contents>",
                                        src |-> dotfiles[list_state'[1] + 1]]
             /\ fileObs' = "read_err" =>
                    preview_content' = [text |-> "Error reading file.", src |-> <<>>]
             /\ fileObs' \in FileAnswers]_vars

(* The third entry is selected and the render shows the contents of that file. *)
C16_Witness ==
    /\ pc = "poll"
    /\ lastEvent = "Down"
    /\ list_state = Some(2)
    /\ fileObs = "file"
    /\ preview_content = [text |-> "<contents>", src |-> dotfiles[3]]
    /\ Len(dotfiles) = 4

(* C17: an iteration is one render followed by at most one input event:     *)
(* after a render comes the input step (or the end of the loop if the draw  *)
(* failed), after an input event the next render or the end; an input       *)
(* event moves the index by at most one, and whenever input is awaited the  *)
(* frame on screen highlights the current selection.                        *)
C17_RenderThenOneInput ==
    [][/\ pc = "draw" => pc' \in {"poll", "restore"}
       /\ pc = "poll" => pc' \in {"draw", "restore", "done"}
       /\ (pc = "poll" /\ list_state # None) =>
            (list_state' # None /\ list_state'[1] - list_state[1] \in {-1, 0, 1})
       /\ (pc = "poll" /\ list_state = None) => list_state' = None
       /\ pc' = "poll" => highlighted' = Highlight(list_state', Len(dotfiles'))]_vars

(* A Down key moved the selection to the third entry and the next render highlights it. *)
C17_Witness ==
    /\ pc = "poll"
    /\ lastEvent = "Down"
    /\ list_state = Some(2)
    /\ highlighted = Some(2)
    /\ fileObs = "dir"
    /\ Len(dotfiles) = 3
====
